---- MODULE Spec2Model ----
(***************************************************************************)
(* TaskManager: the JSON-file task store (src/src/DB/db.ts, class DB) and  *)
(* the Task object that saves itself through it (src/unnamed/part_000).    *)
(*                                                                         *)
(* The store file is modelled as the text the code writes: a JSON array    *)
(* rendered by JSON.stringify with an indent, each task rendered as its    *)
(* list of members.  Every read parses that text back.                     *)
(* I/O faults of the file system (a write that fails) are not modelled.    *)
(***************************************************************************)
EXTENDS Integers, Sequences, FiniteSets, TLC

VARIABLES file, last, written, task

vars == <<file, last, written, task>>

---------------------------------------------------------------------------
(* Bounds and input samples *)

\* Largest id saveTask may assign in the model (caps the id counter).
MaxId == 3

\* Longest array handed to insertBulkData.
MaxBulk == 2

\* Titles used as inputs: one shorter than three characters, two valid.
Titles == {"ab", "abc", "abd"}

\* Titles for the store that takes no import: a third valid title, so that
\* saves alone can store three tasks.
SaveTitles == Titles \cup {"abe"}

\* Ids handed to saveTask, getTaskByID and deleteTaskByID.
Ids == (0 - 1) .. MaxId

\* Tasks that a bulk import may carry: two share a title, one has a negative
\* id and a title shorter than three characters.
BulkTasks ==
    {[id |-> 1, title |-> "abc", completed |-> FALSE],
     [id |-> 2, title |-> "abc", completed |-> TRUE],
     [id |-> 0 - 1, title |-> "ab", completed |-> TRUE]}

BulkArrays == UNION {[1 .. n -> BulkTasks] : n \in 0 .. MaxBulk}

---------------------------------------------------------------------------
(* Program constants *)

MinTitleLen == 3

SaveIndent == 2

DeleteIndent == 4

MsgBadId == "id must be an integer and greater than or equal to zero."
MsgBadTitle == "title must be a string and at least three characters long."
MsgDupNew == "A task with this title already exists."
MsgNotFound == "Task not found"
MsgDupOther == "Another task already has this title."
MsgBulkParse == "Invalid data: Could not parse JSON string."
MsgBulkArray == "Invalid data: Must be an array of Task objects."
MsgDeleteId == "task id must be a positive integer"
\* The prefixes the catch blocks put before the message of the error caught.
MsgDeleteRead == "Cannot read DB file: "
MsgSyntax == "Syntax error in DB file. "
MsgDeleteFormat == "DB file is not in expected format"
\* The messages of the errors the runtime throws: JSON.parse of the text
\* "{oops" and of the empty text, a call of find on an object that has none,
\* and a property read on null.
MsgJsonProperty == "Expected property name or '}' in JSON at position 1"
MsgJsonEnd == "Unexpected end of JSON input"
MsgFindNotFunction == "data.find is not a function"
MsgNullLength == "Cannot read properties of null (reading 'length')"
MsgNullFind == "Cannot read properties of null (reading 'find')"
MsgTaskTitle == "Title must be a string and contain at least 3 characters"

---------------------------------------------------------------------------
(* JSON text *)

\* The text "[]".
EmptyText == [kind |-> "array", indent |-> 0, items |-> <<>>]

\* The text "{oops", which is not JSON; the text of no characters; and the
\* texts "{}" and "null" of JSON values that are no arrays.
InvalidText == [kind |-> "invalid", indent |-> 0, items |-> <<>>]
BlankText == [kind |-> "blank", indent |-> 0, items |-> <<>>]
ObjectText == [kind |-> "object", indent |-> 0, items |-> <<>>]
NullText == [kind |-> "null", indent |-> 0, items |-> <<>>]

\* The members JSON.stringify emits for one task, in property order.
Members(t) ==
    << <<"id", t.id>>, <<"title", t.title>>, <<"completed", t.completed>> >>

\* JSON.stringify(data, null, indent): an empty array is "[]" at any indent.
JSONstringify(data, indent) ==
    [kind |-> "array",
     indent |-> IF Len(data) = 0 THEN 0 ELSE indent,
     items |-> [i \in 1 .. Len(data) |-> Members(data[i])]]

\* The value of the member named key in a parsed object.
Lookup(obj, key) ==
    obj[CHOOSE i \in 1 .. Len(obj) : obj[i][1] = key][2]

ObjectOf(obj) ==
    [id |-> Lookup(obj, "id"),
     title |-> Lookup(obj, "title"),
     completed |-> Lookup(obj, "completed")]

\* An array of tasks as a parsed value.
ParsedArray(a) == [kind |-> "array", ok |-> TRUE, isArray |-> TRUE, val |-> a]

\* JSON.parse(text): ok is FALSE when it throws a SyntaxError; kind tells
\* which value or error came of it.
JSONparse(text) ==
    [kind |-> text.kind,
     ok |-> text.kind \notin {"invalid", "blank"},
     isArray |-> text.kind = "array",
     val |-> IF text.kind = "array"
             THEN [i \in 1 .. Len(text.items) |-> ObjectOf(text.items[i])]
             ELSE <<>>]

\* The message of the SyntaxError JSON.parse throws for a text of this kind.
SyntaxErrorOf(kind) == IF kind = "blank" THEN MsgJsonEnd ELSE MsgJsonProperty

\* The message of the TypeError thrown when data, parsed but no array, is
\* searched with data.find: null fails at once, an object has no find.
FindErrorOf(kind) == IF kind = "null" THEN MsgNullFind ELSE MsgFindNotFunction

---------------------------------------------------------------------------
(* The file and the results of calls *)

AbsentFile == [text |-> EmptyText, exists |-> FALSE]

writeFileSync(text) == [text |-> text, exists |-> TRUE]

EmptyFile == writeFileSync(EmptyText)

Throw(m) == [throws |-> TRUE, msg |-> m, num |-> 0, bool |-> FALSE, tasks |-> <<>>]
OkVoid == [throws |-> FALSE, msg |-> "", num |-> 0, bool |-> FALSE, tasks |-> <<>>]
OkNum(n) == [throws |-> FALSE, msg |-> "", num |-> n, bool |-> FALSE, tasks |-> <<>>]
OkBool(b) == [throws |-> FALSE, msg |-> "", num |-> 0, bool |-> b, tasks |-> <<>>]
OkTasks(s) == [throws |-> FALSE, msg |-> "", num |-> 0, bool |-> FALSE, tasks |-> s]

Res(f, r) == [file |-> f, ret |-> r]

\* Array.prototype.find, given the indices of the elements that satisfy the
\* callback: the first of them, 0 if there is none.
find(hits) ==
    IF hits = {} THEN 0 ELSE CHOOSE i \in hits : \A j \in hits : i <= j

\* data.filter((task) => task.id !== id)
RECURSIVE filterIdNot(_, _)
filterIdNot(data, id) ==
    IF Len(data) = 0 THEN <<>>
    ELSE IF Head(data).id # id
         THEN <<Head(data)>> \o filterIdNot(Tail(data), id)
         ELSE filterIdNot(Tail(data), id)

---------------------------------------------------------------------------
(* class DB: each operation maps the file to the file it leaves and the     *)
(* value it returns or the error it throws.                                 *)

DBExists(f) == f.exists

createDB(f) ==
    IF f.exists THEN Res(f, OkBool(FALSE))
    ELSE Res(writeFileSync(EmptyText), OkBool(TRUE))

resetDB(f) == Res(writeFileSync(EmptyText), OkBool(TRUE))

\* The element of data at index k as Task | null (an empty or one-element list).
orNull(data, k) == IF k = 0 THEN <<>> ELSE <<data[k]>>

\* getTaskByID once the file is read and parsed into p.
findByID(f, p, id) ==
    IF ~p.ok THEN Res(f, Throw(MsgSyntax \o SyntaxErrorOf(p.kind)))
    ELSE IF ~p.isArray THEN Res(f, Throw(MsgSyntax \o FindErrorOf(p.kind)))
    ELSE Res(f, OkTasks(orNull(p.val,
                               find({i \in 1 .. Len(p.val) : p.val[i].id = id}))))

getTaskByID(f, id) ==
    IF ~DBExists(f) THEN Res(createDB(f).file, OkTasks(<<>>))
    ELSE findByID(f, JSONparse(f.text), id)

\* getTaskByTitle once the file is read and parsed into p.
findByTitle(f, p, title) ==
    IF ~p.ok THEN Res(f, Throw(MsgSyntax \o SyntaxErrorOf(p.kind)))
    ELSE IF ~p.isArray THEN Res(f, Throw(MsgSyntax \o FindErrorOf(p.kind)))
    ELSE Res(f, OkTasks(orNull(p.val,
                               find({i \in 1 .. Len(p.val) : p.val[i].title = title}))))

getTaskByTitle(f, title) ==
    IF ~DBExists(f) THEN Res(createDB(f).file, OkTasks(<<>>))
    ELSE findByTitle(f, JSONparse(f.text), title)

\* getAllTasks once the file is read and parsed into p.
allOf(f, p) ==
    IF ~p.ok THEN Res(f, Throw(MsgSyntax \o SyntaxErrorOf(p.kind)))
    ELSE Res(f, OkTasks(IF p.isArray THEN p.val ELSE <<>>))

getAllTasks(f) ==
    IF ~DBExists(f) THEN Res(createDB(f).file, OkTasks(<<>>))
    ELSE allOf(f, JSONparse(f.text))

\* A variant that numbers a new task by the length of the array.
nextIdByCount(data) == Len(data) + 1

\* The id of a new task: one more than the id of the last element.
nextId(data) == IF Len(data) > 0 THEN data[Len(data)].id + 1 ELSE 1

\* The outcome of one branch of saveTask: the array to write and the id.
Saved(data, id) == [id |-> id, data |-> data, ok |-> TRUE, msg |-> ""]
Refused(m) == [id |-> 0, data |-> <<>>, ok |-> FALSE, msg |-> m]

\* saveTask, id === 0: dup is the index find gave for the title.
pushNew(data, finalId, dup, title, completed) ==
    IF dup # 0 THEN Refused(MsgDupNew)
    ELSE Saved(Append(data, [id |-> finalId, title |-> title,
                             completed |-> completed]),
               finalId)

saveNew(data, title, completed) ==
    pushNew(data, nextId(data),
            find({i \in 1 .. Len(data) : data[i].title = title}),
            title, completed)

\* A variant that inserts the task when the id does not resolve.
overwriteOrInsert(data, k, dup, id, title, completed) ==
    IF k = 0
    THEN Saved(Append(data, [id |-> id, title |-> title, completed |-> completed]), id)
    ELSE IF dup # 0 THEN Refused(MsgDupOther)
    ELSE Saved([data EXCEPT ![k].title = title, ![k].completed = completed], id)

\* A variant that removes the matched task and pushes the new version.
overwriteAtEnd(data, k, dup, id, title, completed) ==
    IF k = 0 THEN Refused(MsgNotFound)
    ELSE IF dup # 0 THEN Refused(MsgDupOther)
    ELSE Saved(Append(SubSeq(data, 1, k - 1) \o SubSeq(data, k + 1, Len(data)),
                      [id |-> id, title |-> title, completed |-> completed]),
               id)

\* saveTask, id !== 0: k is the index of existingTask, dup that of duplicate.
overwrite(data, k, dup, id, title, completed) ==
    IF k = 0 THEN Refused(MsgNotFound)
    ELSE IF dup # 0 THEN Refused(MsgDupOther)
    ELSE Saved([data EXCEPT ![k].title = title, ![k].completed = completed], id)

saveExisting(data, id, title, completed) ==
    overwrite(data,
              find({i \in 1 .. Len(data) : data[i].id = id}),
              find({i \in 1 .. Len(data) : data[i].title = title /\ data[i].id # id}),
              id, title, completed)

\* A variant whose length test is off by one.
titleValidOffByOne(title) == Len(title) >= MinTitleLen - 1

\* saveTask's title validation.
titleValid(title) == Len(title) >= MinTitleLen

\* A variant that writes the array also when the save is refused.
commitRefused(f1, r) ==
    IF ~r.ok THEN Res(writeFileSync(JSONstringify(r.data, SaveIndent)), Throw(r.msg))
    ELSE Res(writeFileSync(JSONstringify(r.data, SaveIndent)), OkNum(r.id))

\* saveTask's write of the outcome r over the file f1.
commit(f1, r) ==
    IF ~r.ok THEN Res(f1, Throw(r.msg))
    ELSE Res(writeFileSync(JSONstringify(r.data, SaveIndent)), OkNum(r.id))

\* saveTask once the arguments are validated and the file f1 parsed into p.
\* Nothing catches here: the SyntaxError of JSON.parse leaves saveTask as it
\* is, and so does the TypeError of the first use of data that is no array
\* (data.length of null when id is 0, data.find otherwise).
saveParsed(f1, p, id, title, completed) ==
    IF ~p.ok THEN Res(f1, Throw(SyntaxErrorOf(p.kind)))
    ELSE IF ~p.isArray
    THEN Res(f1, Throw(IF p.kind = "null" /\ id = 0 THEN MsgNullLength
                       ELSE FindErrorOf(p.kind)))
    ELSE commit(f1, IF id = 0 THEN saveNew(p.val, title, completed)
                    ELSE saveExisting(p.val, id, title, completed))

saveTask(f, id, title, completed) ==
    IF id < 0 THEN Res(f, Throw(MsgBadId))
    ELSE IF ~titleValid(title) THEN Res(f, Throw(MsgBadTitle))
    ELSE IF DBExists(f) THEN saveParsed(f, JSONparse(f.text), id, title, completed)
    ELSE saveParsed(createDB(f).file, ParsedArray(<<>>),
                    id, title, completed)

\* The argument of insertBulkData: an array of tasks or a string.
ArrayArg(a) == [kind |-> "array", text |-> EmptyText, arr |-> a]
StringArg(t) == [kind |-> "string", text |-> t, arr |-> <<>>]

\* A variant that appends the import to the stored tasks.
writeBulkAppend(f, p) ==
    IF ~p.ok THEN Res(f, Throw(MsgBulkParse))
    ELSE IF ~p.isArray THEN Res(f, Throw(MsgBulkArray))
    ELSE Res(writeFileSync(JSONstringify(getAllTasks(f).ret.tasks \o p.val,
                                         SaveIndent)),
             OkVoid)

\* insertBulkData once a string argument is parsed into p.
writeBulk(f, p) ==
    IF ~p.ok THEN Res(f, Throw(MsgBulkParse))
    ELSE IF ~p.isArray THEN Res(f, Throw(MsgBulkArray))
    ELSE Res(writeFileSync(JSONstringify(p.val, SaveIndent)), OkVoid)

insertBulkData(f, data) ==
    IF data.kind = "string" THEN writeBulk(f, JSONparse(data.text))
    ELSE writeBulk(f, ParsedArray(data.arr))

\* deleteTaskByID once the file is parsed into old and filtered into data.
writeFiltered(f, old, data) ==
    IF Len(data) = Len(old) THEN Res(f, OkBool(FALSE))
    ELSE Res(writeFileSync(JSONstringify(data, DeleteIndent)), OkBool(TRUE))

\* deleteTaskByID once the file is read and parsed into p.
deleteParsed(f, p, id) ==
    IF ~p.ok THEN Res(f, Throw(MsgDeleteRead \o SyntaxErrorOf(p.kind)))
    ELSE IF ~p.isArray THEN Res(f, Throw(MsgDeleteRead \o MsgDeleteFormat))
    ELSE writeFiltered(f, p.val, filterIdNot(p.val, id))

\* An absent file makes readFileSync throw (the message after the prefix
\* names the path); a file of no characters is read as the empty array.
deleteTaskByID(f, id) ==
    IF id <= 0 THEN Res(f, Throw(MsgDeleteId))
    ELSE IF ~f.exists THEN Res(f, Throw(MsgDeleteRead))
    ELSE deleteParsed(f, IF f.text.kind = "blank" THEN ParsedArray(<<>>)
                         ELSE JSONparse(f.text),
                      id)

---------------------------------------------------------------------------
(* class Task: an object with private id, title and completed.  live tells   *)
(* that the object exists, persisted that a save() of it has succeeded (an  *)
(* object built from a stored task has a stored id and no save() yet).      *)

NoTask ==
    [id |-> 0, title |-> "", completed |-> FALSE, live |-> FALSE,
     persisted |-> FALSE]

\* The title setter's validation.
taskTitleValid(value) == Len(value) >= MinTitleLen

\* new Task(title, completed)
TaskConstructor(title, completed) ==
    IF ~taskTitleValid(title) THEN [task |-> NoTask, ret |-> Throw(MsgTaskTitle)]
    ELSE [task |-> [id |-> 0, title |-> title, completed |-> completed,
                    live |-> TRUE, persisted |-> FALSE],
          ret |-> OkVoid]

\* task.title = value
TaskSetTitle(t, value) ==
    IF ~taskTitleValid(value) THEN [task |-> t, ret |-> Throw(MsgTaskTitle)]
    ELSE [task |-> [t EXCEPT !.title = value], ret |-> OkVoid]

\* task.completed = value
TaskSetCompleted(t, value) ==
    [task |-> [t EXCEPT !.completed = value], ret |-> OkVoid]

\* task.save() once DB.saveTask has returned or thrown r.
saved(t, r) ==
    IF r.ret.throws THEN [task |-> t, file |-> r.file, ret |-> r.ret]
    ELSE [task |-> [t EXCEPT !.id = r.ret.num, !.persisted = TRUE],
          file |-> r.file, ret |-> OkVoid]

\* task.save()

TaskSave(t, f) == saved(t, saveTask(f, t.id, t.title, t.completed))

\* The Task object a static getter builds from the stored task it found, r
\* being what the DB call returned: new Task(title, completed), then setId(id).
loadAs(r, id) ==
    IF r.ret.throws \/ Len(r.ret.tasks) = 0
    THEN [task |-> NoTask, file |-> r.file, ret |-> r.ret]
    ELSE IF ~taskTitleValid(r.ret.tasks[1].title)
    THEN [task |-> NoTask, file |-> r.file, ret |-> Throw(MsgTaskTitle)]
    ELSE [task |-> [id |-> id, title |-> r.ret.tasks[1].title,
                    completed |-> r.ret.tasks[1].completed,
                    live |-> TRUE, persisted |-> FALSE],
          file |-> r.file, ret |-> r.ret]

\* Task.getTaskById(id)
TaskGetTaskById(f, id) == loadAs(getTaskByID(f, id), id)

\* Task.getTaskByTitle once DB.getTaskByTitle has returned or thrown r.
loadFound(r) ==
    loadAs(r, IF r.ret.throws \/ Len(r.ret.tasks) = 0 THEN 0 ELSE r.ret.tasks[1].id)

\* Task.getTaskByTitle(title)
TaskGetTaskByTitle(f, title) == loadFound(getTaskByTitle(f, title))

\* Task.getAllTasks once DB.getAllTasks has returned or thrown r: the raw
\* tasks, or a Task object for each, which throws at a title too short.
loadAll(r, rawObject) ==
    IF r.ret.throws \/ rawObject THEN [items |-> <<>>, file |-> r.file, ret |-> r.ret]
    ELSE IF \E i \in 1 .. Len(r.ret.tasks) : ~taskTitleValid(r.ret.tasks[i].title)
    THEN [items |-> <<>>, file |-> r.file, ret |-> Throw(MsgTaskTitle)]
    ELSE [items |-> [i \in 1 .. Len(r.ret.tasks) |->
                        [id |-> r.ret.tasks[i].id, title |-> r.ret.tasks[i].title,
                         completed |-> r.ret.tasks[i].completed,
                         live |-> TRUE, persisted |-> FALSE]],
          file |-> r.file, ret |-> r.ret]

\* Task.getAllTasks(rawObject)
TaskGetAllTasks(f, rawObject) == loadAll(getAllTasks(f), rawObject)

---------------------------------------------------------------------------
(* The state machine.  file is the store file; last records the latest call *)
(* (the operation and what it returned or threw); written is the list of    *)
(* tasks handed to the store, by an import of an array or by saveTask with  *)
(* id 0, since the store was last empty or imported, valid while nothing    *)
(* else has changed the store; task is the one Task object of the session.  *)

Call(op, ret) == [ret |-> ret, op |-> op]

BulkInputs ==
    {ArrayArg(a) : a \in BulkArrays}
    \cup {StringArg(JSONstringify(<<t>>, DeleteIndent)) : t \in BulkTasks}
    \cup {StringArg(EmptyText), StringArg(InvalidText), StringArg(ObjectText)}

\* The tasks handed to the store: how is "import" (ts replaces the store),
\* "push" (ts is the one new task) or "other".
Track(w, fOld, fNew, how, ts) ==
    IF fNew.text = EmptyText THEN [tasks |-> <<>>, valid |-> TRUE]
    ELSE IF how = "import" THEN [tasks |-> ts, valid |-> TRUE]
    ELSE IF how = "push" /\ w.valid THEN [tasks |-> w.tasks \o ts, valid |-> TRUE]
    ELSE IF fNew = fOld THEN w
    ELSE [tasks |-> <<>>, valid |-> FALSE]

Init ==
    /\ file \in {AbsentFile, EmptyFile}
    /\ last = Call("none", OkVoid)
    /\ written = [tasks |-> <<>>, valid |-> TRUE]
    /\ task = NoTask

\* A call of a DB operation that hands no task to the store.
DBStep(op, r) ==
    /\ file' = r.file
    /\ last' = Call(op, r.ret)
    /\ written' = Track(written, file, r.file, "other", <<>>)
    /\ UNCHANGED task

CreateDB == DBStep("createDB", createDB(file))

ResetDB == DBStep("resetDB", resetDB(file))

GetTaskByID == \E id \in Ids : DBStep("getTaskByID", getTaskByID(file, id))

GetTaskByTitle ==
    \E title \in Titles : DBStep("getTaskByTitle", getTaskByTitle(file, title))

GetAllTasks == DBStep("getAllTasks", getAllTasks(file))

\* saveTask called with a title of the set titles.
SaveTaskOf(titles) ==
    \E id \in Ids, title \in titles, completed \in BOOLEAN :
        \E r \in {saveTask(file, id, title, completed)} :
           /\ r.ret.throws \/ r.ret.num <= MaxId
           /\ file' = r.file
           /\ last' = Call("saveTask", r.ret)
           /\ written' = Track(written, file, r.file,
                               IF id = 0 /\ ~r.ret.throws THEN "push" ELSE "other",
                               <<[id |-> r.ret.num, title |-> title,
                                  completed |-> completed]>>)
           /\ UNCHANGED task

SaveTask == SaveTaskOf(Titles)

InsertBulkData ==
    \E data \in BulkInputs :
        \E r \in {insertBulkData(file, data)} :
           /\ file' = r.file
           /\ last' = Call("insertBulkData", r.ret)
           /\ written' = Track(written, file, r.file,
                               IF data.kind = "array" /\ ~r.ret.throws
                               THEN "import" ELSE "other",
                               data.arr)
           /\ UNCHANGED task

DeleteTaskByID ==
    \E id \in Ids : DBStep("deleteTaskByID", deleteTaskByID(file, id))

Next ==
    \/ CreateDB
    \/ ResetDB
    \/ GetTaskByID
    \/ GetTaskByTitle
    \/ GetAllTasks
    \/ SaveTask
    \/ InsertBulkData
    \/ DeleteTaskByID

Spec == Init /\ [][Next]_vars

---------------------------------------------------------------------------
(* The session with a Task object: the store starts absent, empty, or as a  *)
(* bulk import of one task left it.                                         *)

InitTask ==
    /\ file \in {AbsentFile, EmptyFile}
                \cup {insertBulkData(EmptyFile, ArrayArg(<<t>>)).file : t \in BulkTasks}
    /\ last = Call("none", OkVoid)
    /\ written = [tasks |-> <<>>, valid |-> file.text = EmptyText]
    /\ task = NoTask

TaskStep(op, r) ==
    /\ task' = r.task
    /\ last' = Call(op, r.ret)
    /\ UNCHANGED <<file, written>>

NewTask ==
    \E title \in Titles, completed \in BOOLEAN :
        /\ ~task.live
        /\ TaskStep("Task.new", TaskConstructor(title, completed))

SetTitle ==
    \E value \in Titles :
        /\ task.live
        /\ TaskStep("Task.title", TaskSetTitle(task, value))

SetCompleted ==
    \E value \in BOOLEAN :
        /\ task.live
        /\ TaskStep("Task.completed", TaskSetCompleted(task, value))

Save ==
    /\ task.live
    /\ \E r \in {TaskSave(task, file)} :
           /\ r.ret.throws \/ r.task.id <= MaxId
           /\ task' = r.task
           /\ file' = r.file
           /\ last' = Call("Task.save", r.ret)
           /\ written' = Track(written, file, r.file,
                               IF task.id = 0 /\ ~r.ret.throws
                               THEN "push" ELSE "other",
                               <<[id |-> r.task.id, title |-> task.title,
                                  completed |-> task.completed]>>)

\* A static getter of Task ran and the session holds the object it gave.
LoadStep(op, r) ==
    /\ task' = r.task
    /\ file' = r.file
    /\ last' = Call(op, r.ret)
    /\ written' = Track(written, file, r.file, "other", <<>>)

LoadTaskById ==
    \E id \in Ids :
        /\ ~task.live
        /\ LoadStep("Task.getTaskById", TaskGetTaskById(file, id))

LoadTaskByTitle ==
    \E title \in Titles :
        /\ ~task.live
        /\ LoadStep("Task.getTaskByTitle", TaskGetTaskByTitle(file, title))

\* Of the objects Task.getAllTasks gave, the session holds one or none.
LoadAllTasks ==
    \E rawObject \in BOOLEAN :
        /\ ~task.live
        /\ \E r \in {TaskGetAllTasks(file, rawObject)} :
               \E k \in 0 .. Len(r.items) :
                   /\ task' = (IF k = 0 THEN NoTask ELSE r.items[k])
                   /\ file' = r.file
                   /\ last' = Call("Task.getAllTasks", r.ret)
                   /\ written' = Track(written, file, r.file, "other", <<>>)

\* The object goes out of scope.
DropTask ==
    /\ task.live
    /\ task' = NoTask
    /\ last' = Call("Task.drop", OkVoid)
    /\ UNCHANGED <<file, written>>

NextTask ==
    \/ ResetDB
    \/ SaveTask
    \/ DeleteTaskByID
    \/ NewTask
    \/ SetTitle
    \/ SetCompleted
    \/ Save
    \/ LoadTaskById
    \/ LoadTaskByTitle
    \/ LoadAllTasks
    \/ DropTask

SpecTask == InitTask /\ [][NextTask]_vars

---------------------------------------------------------------------------
(* The store used through saveTask, deleteTaskByID and resetDB only, from   *)
(* an absent or empty file: nothing is imported.                            *)

SaveTaskAlone == SaveTaskOf(SaveTitles)

NextSaves ==
    \/ SaveTaskAlone
    \/ DeleteTaskByID
    \/ ResetDB

SpecSaves == Init /\ [][NextSaves]_vars

---------------------------------------------------------------------------
(* Properties.  StoredTasks is the array a reader gets from the store.      *)

StoredTasks(f) == getAllTasks(f).ret.tasks

Indices(d) == 1 .. Len(d)

MaxIdOf(d) ==
    IF Len(d) = 0 THEN 0
    ELSE CHOOSE m \in {d[i].id : i \in Indices(d)} :
             \A i \in Indices(d) : d[i].id <= m

NoTaskHasId(d, id) == \A i \in Indices(d) : d[i].id # id

\* C1: no two tasks in the stored array have the same id.
UniqueIds ==
    LET d == StoredTasks(file)
    IN \A i, j \in Indices(d) : i # j => d[i].id # d[j].id

\* C2: every stored title has at least three characters and no two stored
\* tasks have the same title.
ValidUniqueTitles ==
    LET d == StoredTasks(file)
    IN /\ \A i \in Indices(d) : Len(d[i].title) >= MinTitleLen
       /\ \A i, j \in Indices(d) : i # j => d[i].title # d[j].title

\* The step is the call saveTask(id, title, completed).
IsSaveTask(id, title, completed) ==
    /\ last'.op = "saveTask"
    /\ file' = saveTask(file, id, title, completed).file
    /\ last'.ret = saveTask(file, id, title, completed).ret

\* The step is the call deleteTaskByID(id).
IsDeleteTaskByID(id) ==
    /\ last'.op = "deleteTaskByID"
    /\ file' = deleteTaskByID(file, id).file
    /\ last'.ret = deleteTaskByID(file, id).ret

\* C3: a successful saveTask with id 0 returns the maximum stored id plus one
\* (1 for a store without tasks) and stores the new task under that id.
NewIdIsMaxPlusOne ==
    [][\A title \in Titles, completed \in BOOLEAN :
           (IsSaveTask(0, title, completed) /\ ~last'.ret.throws) =>
               /\ last'.ret.num = MaxIdOf(StoredTasks(file)) + 1
               /\ \E i \in Indices(StoredTasks(file')) :
                      StoredTasks(file')[i] = [id |-> last'.ret.num, title |-> title,
                                               completed |-> completed]]_vars

\* C4: saveTask throws for id 0 with the title of a stored task and for a
\* non-zero id with the title of a stored task of another id; saving a task
\* under its own id with its own (valid) title does not throw.
DuplicateTitleRule ==
    [][\A id \in Ids, title \in Titles, completed \in BOOLEAN :
           LET d == StoredTasks(file)
           IN IsSaveTask(id, title, completed) =>
                 /\ (id = 0 /\ \E i \in Indices(d) : d[i].title = title)
                       => last'.ret.throws
                 /\ (id # 0 /\ \E i \in Indices(d) : d[i].title = title /\ d[i].id # id)
                       => last'.ret.throws
                 /\ (id > 0 /\ Len(title) >= MinTitleLen
                     /\ \E i \in Indices(d) : d[i].id = id /\ d[i].title = title)
                       => ~last'.ret.throws]_vars

ShortTitled(d) == {d[i] : i \in {j \in Indices(d) : Len(d[j].title) < MinTitleLen}}

\* saveTask(id, title, completed) left the file after for the file before and
\* returned or threw ret: a short title is refused and nothing is written.
ShortTitleSaveRefused(before, after, ret, title) ==
    /\ Len(title) < MinTitleLen => ret.throws /\ after = before
    /\ ShortTitled(StoredTasks(after)) \subseteq ShortTitled(StoredTasks(before))

\* C5: saveTask with a title shorter than three characters throws for every
\* id and store and leaves the file as it was; constructing a Task or assigning
\* Task.title with such a title throws and leaves no such object; no save
\* writes a short-titled task that was not stored before.
ShortTitleRejected ==
    /\ \A id \in Ids, title \in Titles, completed \in BOOLEAN :
           ShortTitleSaveRefused(file, saveTask(file, id, title, completed).file,
                                 saveTask(file, id, title, completed).ret, title)
    /\ \A title \in Titles, completed \in BOOLEAN :
           Len(title) < MinTitleLen =>
               /\ TaskConstructor(title, completed).ret.throws
               /\ ~TaskConstructor(title, completed).task.live
    /\ task.live =>
           /\ Len(task.title) >= MinTitleLen
           /\ \A value \in Titles :
                  Len(value) < MinTitleLen =>
                      /\ TaskSetTitle(task, value).ret.throws
                      /\ TaskSetTitle(task, value).task = task
           /\ ShortTitled(StoredTasks(TaskSave(task, file).file))
                  \subseteq ShortTitled(StoredTasks(file))

\* A short title was handed to saveTask of a store that holds a task.
ShortTitleRejectedWitness ==
    /\ last.op = "saveTask"
    /\ last.ret = Throw(MsgBadTitle)
    /\ Len(StoredTasks(file)) > 0
    /\ task.live

\* C6: deleteTaskByID with a positive id that no stored task has returns
\* false and leaves the store file exactly as it was.
DeleteMissingReturnsFalse ==
    [][\A id \in Ids :
           (id > 0 /\ NoTaskHasId(StoredTasks(file), id) /\ IsDeleteTaskByID(id)) =>
               /\ last'.ret = OkBool(FALSE)
               /\ file' = file]_vars

\* C7: getAllTasks returns exactly the tasks handed to the store, by
\* insertBulkData as an array or by successive saves with id 0: as many, in
\* the same order, with the same id, title and completed.
RoundTrip ==
    written.valid => getAllTasks(file).ret = OkTasks(written.tasks)

\* An array of two tasks was imported and a third was saved with id 0.
RoundTripWitness ==
    /\ last.op = "saveTask"
    /\ ~last.ret.throws
    /\ written.valid
    /\ Len(written.tasks) > MaxBulk
    /\ written.tasks[1].completed

\* C8: a data-access operation (called with valid arguments) invoked while
\* the file is absent creates the file and behaves as on an empty collection:
\* an empty list, null, not found, or the first task saved with id 1.
AbsentFileCreated ==
    [][~file.exists =>
          /\ last'.op \in {"getAllTasks", "getTaskByID", "getTaskByTitle"} =>
                 file' = EmptyFile /\ last'.ret = OkTasks(<<>>)
          /\ \A id \in Ids, title \in Titles, completed \in BOOLEAN :
                 (id >= 0 /\ Len(title) >= MinTitleLen
                  /\ IsSaveTask(id, title, completed)) =>
                     /\ file'.exists
                     /\ file' = saveTask(EmptyFile, id, title, completed).file
                     /\ last'.ret = saveTask(EmptyFile, id, title, completed).ret
                     /\ id = 0 => last'.ret = OkNum(1)
          /\ \A id \in Ids :
                 (id > 0 /\ IsDeleteTaskByID(id)) =>
                     file' = EmptyFile /\ last'.ret = OkBool(FALSE)]_vars

\* C9 as stated: saveTask with a non-zero id that no stored task has throws
\* 'Task not found' and leaves the stored tasks as they were.
UnresolvedIdThrowsNotFound ==
    [][\A id \in Ids, title \in Titles, completed \in BOOLEAN :
           (id # 0 /\ NoTaskHasId(StoredTasks(file), id)
            /\ IsSaveTask(id, title, completed)) =>
               /\ last'.ret = Throw(MsgNotFound)
               /\ StoredTasks(file') = StoredTasks(file)]_vars

\* saveTask threw ret and left the tasks d2 for the tasks d.
NotFoundAndUntouched(d, d2, ret) ==
    ret = Throw(MsgNotFound) /\ d2 = d

\* C9 amended: saveTask with a positive id that no stored task has and a
\* title of at least three characters throws 'Task not found' and leaves the
\* stored tasks as they were.
ValidUnresolvedIdThrowsNotFound ==
    \A id \in Ids, title \in Titles, completed \in BOOLEAN :
        (id > 0 /\ Len(title) >= MinTitleLen
         /\ NoTaskHasId(StoredTasks(file), id)) =>
            NotFoundAndUntouched(StoredTasks(file),
                                 StoredTasks(saveTask(file, id, title, completed).file),
                                 saveTask(file, id, title, completed).ret)

\* saveTask threw 'Task not found' on a store that holds tasks.
UnresolvedIdWitness ==
    /\ last.op = "saveTask"
    /\ last.ret = Throw(MsgNotFound)
    /\ Len(StoredTasks(file)) > 0

\* saveTask(id, title, completed) returned ret and left the tasks d2 for the
\* tasks d: only the first task with the id differs, in title and completed.
OnlyMatchOverwritten(d, d2, ret, id, title, completed) ==
    /\ ret = OkNum(id)
    /\ Len(d2) = Len(d)
    /\ \E k \in Indices(d) :
           /\ d[k].id = id
           /\ \A j \in 1 .. (k - 1) : d[j].id # id
           /\ d2[k] = [id |-> id, title |-> title, completed |-> completed]
           /\ \A i \in Indices(d) : i # k => d2[i] = d[i]

\* C10: a successful saveTask with a non-zero id returns that id and changes
\* only the title and completed of the first task with the id: the length,
\* the order and every other task are as before.
UpdateOverwritesOnlyMatch ==
    \A id \in Ids, title \in Titles, completed \in BOOLEAN :
        (id # 0 /\ ~saveTask(file, id, title, completed).ret.throws) =>
            OnlyMatchOverwritten(StoredTasks(file),
                                 StoredTasks(saveTask(file, id, title, completed).file),
                                 saveTask(file, id, title, completed).ret,
                                 id, title, completed)

\* saveTask has overwritten the first of several stored tasks.
UpdateWitness ==
    LET d == StoredTasks(file)
    IN /\ last.op = "saveTask"
       /\ ~last.ret.throws
       /\ Len(d) >= 2
       /\ d[1].id = last.ret.num
       /\ d[Len(d)].id # last.ret.num
       /\ d[1].completed

\* The tasks of d whose id differs from id, in the order of d.
Without(d, id) == SelectSeq(d, LAMBDA t : t.id # id)

\* C11: deleteTaskByID with an id that a stored task has returns true and
\* leaves exactly the tasks of another id, unchanged and in their order;
\* getTaskByID of that id then returns null.
DeleteStoredRemoves ==
    [][\A id \in Ids :
           ((\E i \in Indices(StoredTasks(file)) : StoredTasks(file)[i].id = id)
            /\ IsDeleteTaskByID(id)) =>
               /\ last'.ret = OkBool(TRUE)
               /\ StoredTasks(file') = Without(StoredTasks(file), id)
               /\ getTaskByID(file', id).ret = OkTasks(<<>>)]_vars

\* The same for the ids saveTask assigns, which are positive.
DeleteStoredPositiveRemoves ==
    \A id \in Ids :
        (id > 0 /\ \E i \in Indices(StoredTasks(file)) : StoredTasks(file)[i].id = id) =>
            /\ deleteTaskByID(file, id).ret = OkBool(TRUE)
            /\ StoredTasks(deleteTaskByID(file, id).file) = Without(StoredTasks(file), id)
            /\ getTaskByID(deleteTaskByID(file, id).file, id).ret = OkTasks(<<>>)

\* C12 as stated: a saveTask call that throws leaves the store file as it was,
\* absent if it was absent and with the same content if it existed.
ThrowLeavesFileAsItWas ==
    [][\A id \in Ids, title \in Titles, completed \in BOOLEAN :
           (IsSaveTask(id, title, completed) /\ last'.ret.throws) =>
               file' = file]_vars

\* saveTask(id, title, completed) threw and left the file after for the file
\* before: the tasks are the same, an existing file is untouched, and an
\* absent file stays absent when the id or the title is refused and is
\* created as the empty array otherwise.
TasksKeptFileMaybeCreated(before, after, id, title) ==
    /\ StoredTasks(after) = StoredTasks(before)
    /\ before.exists => after = before
    /\ ~before.exists =>
           after = (IF id >= 0 /\ Len(title) >= MinTitleLen THEN EmptyFile
                    ELSE before)

\* C12 amended: a saveTask call that throws leaves the stored tasks and an
\* existing file as they were; of an absent file it changes nothing but that
\* a call with a valid id and title has created it empty.
ThrowLeavesTasks ==
    \A id \in Ids, title \in Titles, completed \in BOOLEAN :
        saveTask(file, id, title, completed).ret.throws =>
            TasksKeptFileMaybeCreated(file, saveTask(file, id, title, completed).file,
                                      id, title)

\* saveTask refused a title that another stored task has.
ThrowLeavesTasksWitness ==
    /\ last.op = "saveTask"
    /\ last.ret = Throw(MsgDupOther)
    /\ Len(StoredTasks(file)) >= 2

\* The record of the Task object t is among the stored tasks d.
HoldsRecordOf(d, t) ==
    \E i \in Indices(d) :
        d[i] = [id |-> t.id, title |-> t.title, completed |-> t.completed]

\* C13: a new Task object has id 0; the first successful save() of an object
\* of id 0 stores its record under the id the object then has; an object
\* that was saved keeps its id, and while a task with that id is stored,
\* every later successful save() stores the object's record under that id
\* and leaves the number of stored tasks as it was.
SecondSaveUpdates ==
    [][/\ (last'.op = "Task.new" /\ ~last'.ret.throws) => task'.id = 0
       /\ (last'.op = "Task.save" /\ ~last'.ret.throws /\ ~task.persisted
           /\ task.id = 0) =>
              HoldsRecordOf(StoredTasks(file'), task')
       /\ (task.persisted /\ task'.live
           /\ (last'.op # "Task.save" \/ last'.ret.throws)) =>
              task'.id = task.id
       /\ (last'.op = "Task.save" /\ ~last'.ret.throws /\ task.persisted
           /\ ~NoTaskHasId(StoredTasks(file), task.id)) =>
              /\ task'.id = task.id
              /\ HoldsRecordOf(StoredTasks(file'), task')
              /\ Len(StoredTasks(file')) = Len(StoredTasks(file))]_vars

StrictlyIncreasing(d) == \A i, j \in Indices(d) : i < j => d[i].id < d[j].id

\* saveTask with id 0 returned ret on the tasks d: a new id exceeds every id.
NewIdAboveAll(d, ret) ==
    ~ret.throws => \A i \in Indices(d) : d[i].id < ret.num

\* C14: without imports the stored array is strictly increasing by id, its
\* last element holds the maximum id, and an id that saveTask assigns is
\* greater than every stored id.
SortedById ==
    /\ StrictlyIncreasing(StoredTasks(file))
    /\ Len(StoredTasks(file)) > 0 =>
           StoredTasks(file)[Len(StoredTasks(file))].id = MaxIdOf(StoredTasks(file))
    /\ \A title \in SaveTitles, completed \in BOOLEAN :
           NewIdAboveAll(StoredTasks(file), saveTask(file, 0, title, completed).ret)

\* A task was saved as new, behind another, after the task of the lowest id
\* had been deleted.
SortedByIdWitness ==
    /\ last.op = "saveTask"
    /\ ~last.ret.throws
    /\ Len(StoredTasks(file)) = 2
    /\ StoredTasks(file)[1].id > 1
    /\ StoredTasks(file)[2].id = last.ret.num

====
